---- MODULE Spec2Model ----
(***************************************************************************)
(* Vectorstore lifecycle manager and retrieval-answer pipeline of the      *)
(* archivist agent (src/archivist_agent/agent/pdf_loader.py), and its      *)
(* ingestion and search tools (google_adk_rag_tools/tools.py, gemini_rag). *)
(*                                                                         *)
(* Spec is the single-threaded process that uses pdf_loader.py, RaceSpec   *)
(* two threads in get_or_create_vectorstore, ToolsSpec a process that      *)
(* calls the tools (each call one step), ChunkSpec the runs of             *)
(* _chunk_text over a set of arguments, ContextSpec the runs of            *)
(* _build_context_from_docs, IngestRaceSpec a call of                      *)
(* add_document_to_knowledge_base with calls of query_knowledge_base       *)
(* beside it.                                                              *)
(*                                                                         *)
(* Strings are modelled as sequences of tokens: a token is a word, a       *)
(* punctuation mark, a whitespace character or a fixed phrase of the       *)
(* program.  str.lower() maps tokens, `x in s` is contiguous containment,  *)
(* str.strip() removes the whitespace tokens at both ends.                 *)
(*                                                                         *)
(* A helper function of the module is an operator from a world (the        *)
(* module's globals, the persistence directory on disk and the counts of   *)
(* the steps run so far in the current call) to the SET of its possible    *)
(* outcomes: one outcome for each behaviour of the collaborators (the      *)
(* store's open and build, the model loaders, the PDF loaders, the         *)
(* retriever, the generation pipeline); the file system is reliable, so    *)
(* shutil.rmtree removes the directory and the handler of lines 124-125    *)
(* never runs.  An outcome is [w, exc, ret]: the world                     *)
(* after, the exception raised (NoExc for a normal return) and the value   *)
(* returned.  The public functions run as sequences of steps of a thread,  *)
(* one step for each call of a helper, with the thread's position in pc.   *)
(***************************************************************************)
EXTENDS Integers, Sequences, FiniteSets, TLC

VARIABLES
    _vectorstore,      \* pdf_loader.py:40   0 is None, h > 0 is the Chroma object number h
    _embedding_model,  \* pdf_loader.py:38   FALSE is None, TRUE is the loaded model
    _hf_pipeline,      \* pdf_loader.py:39   FALSE is None, TRUE is the loaded pipeline
    persist_dir,       \* PERSIST_DIRECTORY on disk
    pdf_files,         \* number of *.pdf files in PDF_DIRECTORY
    next_handle,       \* number the next Chroma object constructed will get
    frame,             \* per thread: its position, the locals of the call it runs, and
                       \* the outcome and the step counts of its current (or last) call
    context_run,       \* pdf_loader.py:203 a run of _build_context_from_docs: its arguments
                       \* and its result
    chunker,           \* tools.py:94    a run of _chunk_text: its arguments and its locals
    tools_model,       \* tools.py:28    FALSE is None, TRUE is the loaded SentenceTransformer
    _collection,       \* tools.py:30    FALSE is None, TRUE is the collection object
    records,           \* the records of collection google_adk_docs in ./vectorstore_data
    call,              \* the last call of a tool: its arguments, its outcome, what it ran
    ingestion          \* tools.py:122   a call of add_document_to_knowledge_base that runs
                       \* beside other calls: its position and its locals

vars ==
    <<_vectorstore, _embedding_model, _hf_pipeline, persist_dir, pdf_files, next_handle, frame,
      context_run, chunker, tools_model, _collection, records, call, ingestion>>

\* The state of pdf_loader.py, and the state of google_adk_rag_tools/tools.py
loader_vars ==
    <<_vectorstore, _embedding_model, _hf_pipeline, persist_dir, pdf_files, next_handle, frame,
      context_run>>

tools_vars == <<chunker, tools_model, _collection, records, call, ingestion>>

---------------------------------------------------------------------------
(* Bounds of the model *)

\* Chroma objects constructed in one run of the process
MaxHandles == 2
\* *.pdf files the source directory can hold
MaxPdfFiles == 1
\* chunks the retriever can draw its matches from
MaxChunks == 2
\* length of a query, in tokens
MaxQueryLen == 1
\* runs of equal characters in a short text given to _chunk_text
MaxRuns == 3
\* length of a run of a short text
MaxRun == 2
\* chunk_size given to _chunk_text with a short text
MaxChunkSize == 3
\* overlap given to _chunk_text with a short text
MaxOverlap == 3
\* documents in a list given to _build_context_from_docs
MaxDocs == 2
\* max_length given to _build_context_from_docs, besides the default
MaxContextLength == 3

(* Constants of the program *)

RETRIEVAL_K == 3
MAX_RETRIES == 1
MAX_CONTEXT_LENGTH == 1000
\* pdf_loader.py:31
CHUNK_SIZE == 800
\* tools.py:94 and tools.py:106
DEFAULT_CHUNK_SIZE == 1000
DEFAULT_OVERLAP == 200
LOOKBACK == 100

---------------------------------------------------------------------------
(* Strings *)

Whitespace == {" ", "\n"}

RECURSIVE lstrip(_)
lstrip(s) ==
    IF s # <<>> /\ Head(s) \in Whitespace THEN lstrip(Tail(s)) ELSE s

RECURSIVE rstrip(_)
rstrip(s) ==
    IF s # <<>> /\ s[Len(s)] \in Whitespace THEN rstrip(SubSeq(s, 1, Len(s) - 1)) ELSE s

\* str.strip()
strip(s) == rstrip(lstrip(s))

\* str.lower() of one token
lower_token(t) ==
    CASE t = "Disk" -> "disk"
      [] t = "I/O" -> "i/o"
      [] t = "Error" -> "error"
      [] t = "Database" -> "database"
      [] OTHER -> t

\* str.lower()
lower(s) == [i \in 1..Len(s) |-> lower_token(s[i])]

\* `sub in s` of two strings
contains(s, sub) ==
    \E i \in 0..(Len(s) - Len(sub)) : SubSeq(s, i + 1, i + Len(sub)) = sub

---------------------------------------------------------------------------
(* Exceptions *)

NoExc == [type |-> "none", msg |-> <<>>]

Exception(msg) == [type |-> "Exception", msg |-> msg]

\* Messages of the errors the store can raise when it is opened
OpenErrorMessages ==
    { <<"sqlite", ":", "disk", "I/O", "error">>,
      <<"Database", "Error", ":", "malformed">>,
      <<"Error", "getting", "collection">>,
      <<"database", "is", "locked">>,
      <<"permission", "denied">> }

\* Messages of the errors a build or a similarity search can raise
StoreErrorMessages ==
    { <<"sqlite", ":", "disk", "I/O", "error">>,
      <<"I/O", "timeout">> }

EmbeddingLoadError == <<"cannot", "load", "model">>

db_error_indicators ==
    << <<"disk", "i/o", "error">>, <<"database", "error">>, <<"error", "getting", "collection">> >>

\* The indicators looked for in the message as it is, not lowercased
_is_database_error_case_sensitive(error) ==
    \E i \in 1..Len(db_error_indicators) : contains(error.msg, db_error_indicators[i])

_is_database_error(error) ==
    LET error_str == lower(error.msg)
    IN  \E k \in 1..Len(db_error_indicators) : contains(error_str, db_error_indicators[k])

---------------------------------------------------------------------------
(* Worlds and outcomes *)

\* What the persistence directory can hold: nothing (it does not exist), no entry,
\* a complete index, or files that are no complete index (the remains of a build
\* that raised, a damaged index).
DirStates == {"absent", "empty", "index", "partial"}

\* The steps counted: those of the vectorstore manager since the last call of
\* get_or_create_vectorstore or of reset_vectorstore began, and those of the answer
\* pipeline ("attempt", "reset", "search", "generate") in the current call of
\* query_rag_system_local
Events == {"inspect", "open", "clean", "rmtree", "scan", "build", "search", "reset",
           "attempt", "generate"}

ManagerEvents == {"inspect", "open", "clean", "rmtree", "scan", "build"}

NoEvents == [e \in Events |-> 0]

Log(w, event) == [w EXCEPT !.ev[event] = @ + 1]

Out(w, exc, ret) == [w |-> w, exc |-> exc, ret |-> ret]

Returns(w, ret) == Out(w, NoExc, ret)

Raises(w, exc) == Out(w, exc, 0)

\* The outcomes of `first` followed, for each of them, by `then`
Bind(first, then(_)) == UNION { then(o) : o \in first }

\* A new Chroma object
NewHandle(w) == Returns([w EXCEPT !.next = @ + 1], w.next)

---------------------------------------------------------------------------
(* Lazy singletons *)

_get_embedding_model(w) ==
    IF ~w.emb
    THEN { Returns([w EXCEPT !.emb = TRUE], TRUE), Raises(w, Exception(EmbeddingLoadError)) }
    ELSE { Returns(w, TRUE) }

_get_hf_pipeline(w) ==
    IF ~w.hf
    THEN { Returns([w EXCEPT !.hf = TRUE], TRUE),
           Raises(w, Exception(<<"cannot", "load", "pipeline">>)) }
    ELSE { Returns(w, TRUE) }

---------------------------------------------------------------------------
(* Corpus and index *)

\* Returns the number of documents loaded: each file loads (with either loader) or
\* is skipped.
_load_pdf_documents(w) ==
    { Returns(Log(w, "scan"), n) : n \in 0..w.pdfs }

\* Chroma.from_documents: a new index in the directory, or an error that leaves the
\* directory as it was or with the remains of the build.
from_documents(w) ==
    { NewHandle([w EXCEPT !.dir = "index"]) }
    \cup { Raises(w, Exception(m)) : m \in StoreErrorMessages }
    \cup { Raises([w EXCEPT !.dir = "partial"], Exception(m)) : m \in StoreErrorMessages }

_build_vectorstore(w, documents) ==
    IF documents = 0
    THEN { Raises(w, [type |-> "ValueError", msg |-> <<"No documents provided to build vectorstore">>]) }
    ELSE Bind(_get_embedding_model(Log(w, "build")),
              LAMBDA m : IF m.exc # NoExc THEN {m} ELSE from_documents(m.w))

\* A clean that leaves the directory alone once a handle is set
_clean_unless_handle(w) ==
    IF w.dir # "absent" /\ w.vs = 0
    THEN { Returns([Log(Log(w, "clean"), "rmtree") EXCEPT !.dir = "absent"], 0) }
    ELSE { Returns(Log(w, "clean"), 0) }

\* shutil.rmtree removes the directory: the file system does what it is asked, the
\* faults of the model are those of the store, the loaders and the models.
_clean_vectorstore_directory(w) ==
    IF w.dir # "absent"
    THEN { Returns([Log(Log(w, "clean"), "rmtree") EXCEPT !.dir = "absent"], 0) }
    ELSE { Returns(Log(w, "clean"), 0) }

\* Chroma(persist_directory=...): the store opens, or raises one of its errors.
open_store(w) ==
    { NewHandle(Log(w, "open")) }
    \cup { Raises(Log(w, "open"), Exception(m)) : m \in OpenErrorMessages }

\* A load that cleans the directory after every error of the open
_load_existing_vectorstore_always_clean(w) ==
    IF w.dir \in {"absent", "empty"}
    THEN { Returns(Log(w, "inspect"), 0) }
    ELSE Bind(Bind(_get_embedding_model(Log(w, "inspect")),
                   LAMBDA m : IF m.exc # NoExc THEN {m} ELSE open_store(m.w)),
              LAMBDA o : IF o.exc = NoExc
                         THEN {o}
                         ELSE _clean_vectorstore_directory([o.w EXCEPT !.load_error = o.exc]))

_load_existing_vectorstore(w) ==
    IF w.dir \in {"absent", "empty"}
    THEN { Returns(Log(w, "inspect"), 0) }
    ELSE Bind(Bind(_get_embedding_model(Log(w, "inspect")),
                   LAMBDA m : IF m.exc # NoExc THEN {m} ELSE open_store(m.w)),
              LAMBDA o : IF o.exc = NoExc
                         THEN {o}
                         ELSE LET logged == [o.w EXCEPT !.load_error = o.exc]
                              IN  IF _is_database_error(o.exc)
                                  THEN _clean_vectorstore_directory(logged)
                                  ELSE { Returns(logged, 0) })

NoSourceDocuments ==
    [type |-> "FileNotFoundError", msg |-> <<"No PDF documents found in ", "PDF_DIRECTORY">>]

\* A reset that cleans the directory only when a handle was cached
reset_vectorstore_if_loaded(w) ==
    IF w.vs # 0
    THEN _clean_vectorstore_directory([Log(w, "reset") EXCEPT !.vs = 0])
    ELSE { Returns(Log(w, "reset"), 0) }

\* A reset that cleans the directory and keeps the handle
reset_vectorstore_keeps_handle(w) ==
    _clean_vectorstore_directory(Log(w, "reset"))

reset_vectorstore(w) ==
    _clean_vectorstore_directory([Log(w, "reset") EXCEPT !.vs = 0])

---------------------------------------------------------------------------
(* Retrieval and answer *)

\* Lists of n distinct chunks
Arrangements(n) ==
    { s \in [1..n -> 1..MaxChunks] : \A i, j \in 1..n : i # j => s[i] # s[j] }

\* What a retriever asked for k matches can return
SearchResults(k) ==
    UNION { Arrangements(n) : n \in 0..(IF k < MaxChunks THEN k ELSE MaxChunks) }

\* doc.page_content: the text of chunk number doc >= 1 of the index, of CHUNK_SIZE
\* tokens; document number doc <= 0 is a text of -doc tokens
page_content(doc) ==
    IF doc >= 1
    THEN <<"chunk", ToString(doc)>> \o [i \in 1..(CHUNK_SIZE - 2) |-> "x"]
    ELSE [i \in 1..(-doc) |-> ToString(i)]

RECURSIVE join(_, _)
join(sep, parts) ==
    IF parts = <<>> THEN <<>>
    ELSE IF Len(parts) = 1 THEN parts[1]
    ELSE parts[1] \o sep \o join(sep, Tail(parts))

\* text[:k]: a k below 0 counts from the end of the text
prefix(text, k) ==
    IF k >= 0
    THEN SubSeq(text, 1, IF k <= Len(text) THEN k ELSE Len(text))
    ELSE SubSeq(text, 1, IF Len(text) + k >= 0 THEN Len(text) + k ELSE 0)

\* A context of the texts each cut to max_length, then joined
_build_context_cut_each(docs, max_length) ==
    join(<<"\n", "\n">>, [i \in 1..Len(docs) |-> prefix(page_content(docs[i]), max_length)])

\* Lines 203-209
_build_context_from_docs(docs, max_length) ==
    IF docs = <<>>
    THEN <<>>
    ELSE LET context == join(<<"\n", "\n">>, [i \in 1..Len(docs) |-> page_content(docs[i])])
         IN  IF Len(context) > max_length THEN prefix(context, max_length) ELSE context

\* No run of _build_context_from_docs
NoContextRun == [pc |-> "idle", docs |-> <<>>, max_length |-> 0, context |-> <<>>]

\* The documents a list given to _build_context_from_docs is made of: an empty text,
\* texts of one and two tokens, two chunks of CHUNK_SIZE tokens
ContextDocs == (-2)..2

\* The arguments _build_context_from_docs is run with
ContextInputs ==
    (UNION { [1..n -> ContextDocs] : n \in 0..MaxDocs })
    \X ((0..MaxContextLength) \cup {MAX_CONTEXT_LENGTH})

_format_prompt(context, query) ==
    IF strip(context) # <<>>
    THEN <<"Answer based on context: ">> \o context \o <<"... Question: ">> \o query
    ELSE <<"Answer: ">> \o query

\* Texts the generation pipeline can answer with
GeneratedTexts == { <<"yes">>, <<" ", "yes", "\n">>, <<" ">> }

GenerationError == <<"Error generating response with the model.">>

_generate_response(w, prompt) ==
    Bind(_get_hf_pipeline(w),
         LAMBDA p : IF p.exc # NoExc
                    THEN { Returns(p.w, GenerationError) }
                    ELSE { Returns(Log(p.w, "generate"), t) : t \in GeneratedTexts }
                         \cup { Returns(Log(p.w, "generate"), GenerationError) })

\* retriever.invoke(query): at most k matches, or an error of the store
invoke_retriever(w, query, k) ==
    { Returns(Log(w, "search"), docs) : docs \in SearchResults(k) }
    \cup { Raises(Log(w, "search"), Exception(m)) : m \in StoreErrorMessages }

---------------------------------------------------------------------------
(* google_adk_rag_tools/tools.py: texts *)

(* A text is a sequence of runs [c, n]: the character c repeated n >= 1 times, *)
(* with different characters in adjacent runs, so that equal texts are equal  *)
(* values.  The characters are a letter, a sentence end and a blank.           *)

Chars == {"a", ".", " "}

\* tools.py:107
Boundaries == {".", "!", "?", "\n"}

RECURSIVE len(_)
len(text) == IF text = <<>> THEN 0 ELSE text[1].n + len(Tail(text))

\* The character at index i, 0 <= i < len(text)
RECURSIVE char_at(_, _)
char_at(text, i) ==
    IF i < text[1].n THEN text[1].c ELSE char_at(Tail(text), i - text[1].n)

\* text[i]: an index below 0 counts from the end, an index out of range raises
getitem(text, i) ==
    LET j == IF i < 0 THEN i + len(text) ELSE i
    IN  IF j < 0 \/ j >= len(text) THEN "IndexError" ELSE char_at(text, j)

\* text without its first k characters
RECURSIVE drop(_, _)
drop(text, k) ==
    IF k = 0 \/ text = <<>> THEN text
    ELSE IF k >= text[1].n THEN drop(Tail(text), k - text[1].n)
    ELSE <<[text[1] EXCEPT !.n = @ - k]>> \o Tail(text)

\* The first k characters of text
RECURSIVE take(_, _)
take(text, k) ==
    IF k = 0 \/ text = <<>> THEN <<>>
    ELSE IF k >= text[1].n THEN <<text[1]>> \o take(Tail(text), k - text[1].n)
    ELSE <<[text[1] EXCEPT !.n = k]>>

\* The positions text[start:end] takes, start >= 0: an end below 0 counts from the
\* end of the text, and both are cut to the text
slice_bounds(text, start, end) ==
    LET n == len(text)
        e == IF end < 0 THEN end + n ELSE end
        hi == IF e < 0 THEN 0 ELSE IF e > n THEN n ELSE e
        lo == IF start > n THEN n ELSE start
    IN  <<lo, hi>>

\* text[start:end]
getslice(text, start, end) ==
    LET b == slice_bounds(text, start, end)
    IN  IF b[1] >= b[2] THEN <<>> ELSE take(drop(text, b[1]), b[2] - b[1])

RECURSIVE text_lstrip(_)
text_lstrip(text) ==
    IF text # <<>> /\ text[1].c \in Whitespace THEN text_lstrip(Tail(text)) ELSE text

RECURSIVE text_rstrip(_)
text_rstrip(text) ==
    IF text # <<>> /\ text[Len(text)].c \in Whitespace
    THEN text_rstrip(SubSeq(text, 1, Len(text) - 1))
    ELSE text

\* text.strip()
text_strip(text) == text_rstrip(text_lstrip(text))

max(a, b) == IF a >= b THEN a ELSE b

---------------------------------------------------------------------------
(* google_adk_rag_tools/tools.py: _chunk_text *)

\* No run of _chunk_text. windows: for each chunk of chunks, the positions
\* [lo, hi) of the text it was cut from. iterations: runs of the loop body.
NoRun ==
    [pc |-> "idle", text |-> <<>>, chunk_size |-> 0, overlap |-> 0, start |-> 0,
     chunks |-> <<>>, windows |-> <<>>, iterations |-> 0]

\* _chunk_text(text, chunk_size, overlap) is called
chunk_called(text, chunk_size, overlap) ==
    [NoRun EXCEPT !.pc = "called", !.text = text, !.chunk_size = chunk_size, !.overlap = overlap]

\* Line 102
while_check(r) ==
    IF r.start < len(r.text) THEN [r EXCEPT !.pc = "loop"] ELSE [r EXCEPT !.pc = "returned"]

\* Lines 96-102
chunk_enter(r) ==
    IF len(r.text) <= r.chunk_size
    THEN [r EXCEPT !.pc = "returned", !.chunks = <<r.text>>, !.windows = << <<0, len(r.text)>> >>]
    ELSE while_check(r)

NotFound == [found |-> FALSE, raised |-> FALSE, i |-> 0]

\* The index of the first character of the run that holds index j, 0 <= j < len(text)
RECURSIVE run_start(_, _, _)
run_start(text, j, base) ==
    IF j < base + text[1].n THEN base ELSE run_start(Tail(text), j, base + text[1].n)

\* Lines 106-109: the indices from i down to stop, stop not included. The characters
\* of a run are equal: after one that is no sentence end the search goes on below
\* the run.
RECURSIVE find_cut(_, _, _)
find_cut(text, i, stop) ==
    IF i <= stop
    THEN NotFound
    ELSE LET c == getitem(text, i)
             j == IF i < 0 THEN i + len(text) ELSE i
         IN  IF c = "IndexError" THEN [found |-> FALSE, raised |-> TRUE, i |-> i]
             ELSE IF c \in Boundaries THEN [found |-> TRUE, raised |-> FALSE, i |-> i]
             ELSE find_cut(text, i - (j - run_start(text, j, 0)) - 1, stop)

\* Lines 103-109: the search for a sentence end below the end of the window
look_back(r) ==
    IF r.start + r.chunk_size < len(r.text)
    THEN find_cut(r.text, r.start + r.chunk_size - 1, r.start + r.chunk_size - LOOKBACK)
    ELSE NotFound

\* Lines 103-109: end, where the chunk of this iteration is cut
cut_end(r) ==
    IF look_back(r).found THEN look_back(r).i + 1 ELSE r.start + r.chunk_size

\* Lines 103-118: the body of the loop, and the test of line 102 after it
chunk_iteration(r) ==
    LET text == r.text
        cut == look_back(r)
        end == cut_end(r)
        chunk == text_strip(getslice(text, r.start, end))
        q == [r EXCEPT !.iterations = @ + 1]
        kept == IF chunk # <<>>
                THEN [q EXCEPT !.chunks = Append(@, chunk),
                               !.windows = Append(@, slice_bounds(text, r.start, end))]
                ELSE q
    IN  IF cut.raised THEN [q EXCEPT !.pc = "raised"]
        ELSE IF end >= len(text) THEN [kept EXCEPT !.pc = "returned"]
        ELSE while_check([kept EXCEPT !.start = max(end - r.overlap, r.start + 1)])

RECURSIVE chunk_loop(_)
chunk_loop(r) == IF r.pc = "loop" THEN chunk_loop(chunk_iteration(r)) ELSE r

\* The run of _chunk_text(text, chunk_size, overlap) at its end: returned with
\* chunks, or raised IndexError
_chunk_text(text, chunk_size, overlap) ==
    chunk_loop(chunk_enter(chunk_called(text, chunk_size, overlap)))

\* The texts of at most k runs with lengths in lengths
RECURSIVE TextsOf(_, _)
TextsOf(k, lengths) ==
    IF k = 0
    THEN { <<>> }
    ELSE LET shorter == TextsOf(k - 1, lengths)
         IN  shorter \cup { Append(t, [c |-> c, n |-> n]) :
                                t \in { u \in shorter : Len(u) = k - 1 },
                                c \in Chars, n \in lengths }

Canonical(text) == \A i \in 1..(Len(text) - 1) : text[i].c # text[i + 1].c

ShortTexts == { t \in TextsOf(MaxRuns, 1..MaxRun) : Canonical(t) }

\* Texts longer than the default chunk size, with a sentence end or a blank inside
\* and outside the last LOOKBACK characters of a window
LongTexts == { t \in TextsOf(3, {1, 950, 1000}) : Canonical(t) /\ len(t) > DEFAULT_CHUNK_SIZE }

\* The arguments _chunk_text is run with
ChunkInputs ==
    (ShortTexts \X (1..MaxChunkSize) \X (0..MaxOverlap))
    \cup ((ShortTexts \cup LongTexts) \X {DEFAULT_CHUNK_SIZE} \X {DEFAULT_OVERLAP})

---------------------------------------------------------------------------
(* google_adk_rag_tools/tools.py: collaborators *)

\* An argument of a tool: a string, or None
Str(value) == [type |-> "str", value |-> value]

None == [type |-> "NoneType", value |-> <<>>]

\* Calls a tool makes, and "cleanup_error": collection.get or collection.delete
\* raised
ToolEvents ==
    {"extract", "chunk", "encode", "collection", "get", "delete", "cleanup_error", "add",
     "count", "query"}

NoToolEvents == [e \in ToolEvents |-> 0]

\* The paths given to add_document_to_knowledge_base
Paths == {"", "case.pdf", "old/case.pdf", "notes.txt", "gone.txt", "data.csv"}

\* os.path.exists(file_path)
exists(file_path) == file_path \in {"case.pdf", "old/case.pdf", "notes.txt", "data.csv"}

\* Path(file_path).suffix.lower()
suffix(file_path) ==
    CASE file_path \in {"case.pdf", "old/case.pdf"} -> ".pdf"
      [] file_path \in {"notes.txt", "gone.txt"} -> ".txt"
      [] file_path = "data.csv" -> ".csv"
      [] OTHER -> ""

\* os.path.basename(file_path)
basename(file_path) == IF file_path = "old/case.pdf" THEN "case.pdf" ELSE file_path

Letters(n) == <<[c |-> "a", n |-> n]>>

\* What a file can hold when it is read: case.pdf a text of one, two or three chunks,
\* with blanks around it, or blanks only
FileTexts(file_path) ==
    CASE file_path = "case.pdf" ->
             { <<[c |-> " ", n |-> 1]>>, Letters(1), Letters(1500),
               <<[c |-> " ", n |-> 1]>> \o Letters(2000) \o <<[c |-> " ", n |-> 2]>> }
      [] file_path = "old/case.pdf" -> { Letters(1) }
      [] OTHER -> { <<[c |-> ".", n |-> 1]>> }

\* The world a tool acts on: the globals of the module, the records of the
\* collection, and of this call of the tool: the calls made so far, the number of
\* chunks _chunk_text returned (-1: not run), the matches collection.query
\* returned, the exception the handler of the tool caught
ToolWorld ==
    [model |-> tools_model, coll |-> _collection, records |-> records, ev |-> NoToolEvents,
     chunked |-> -1, matches |-> <<>>, fault |-> NoExc]

\* Lines 32-45
tools_get_embedding_model(w) ==
    IF ~w.model
    THEN { Returns([w EXCEPT !.model = TRUE], TRUE),
           Raises(w, Exception(<<"Error cargando modelo de embeddings: ", "no network">>)) }
    ELSE { Returns(w, TRUE) }

\* model.encode(texts)
encode(w) ==
    { Returns(Log(w, "encode"), TRUE), Raises(Log(w, "encode"), Exception(<<"out of memory">>)) }

\* Lines 47-68: the client, and the collection got or created
_get_chroma_collection(w) ==
    IF ~w.coll
    THEN { Returns([Log(w, "collection") EXCEPT !.coll = TRUE], TRUE),
           Raises(Log(w, "collection"), Exception(<<"database", "is", "locked">>)) }
    ELSE { Returns(w, TRUE) }

\* An extraction that reads a file of any extension as text
_extract_text_any_format(w, file_path) ==
    IF ~exists(file_path)
    THEN { Raises(w, Exception(<<"Archivo no encontrado: ", file_path>>)) }
    ELSE { Returns(Log(w, "extract"), text_strip(text)) : text \in FileTexts(file_path) }
         \cup { Raises(Log(w, "extract"), Exception(<<"invalid start byte">>)) }

\* Lines 70-92
_extract_text(w, file_path) ==
    IF ~exists(file_path)
    THEN { Raises(w, Exception(<<"Archivo no encontrado: ", file_path>>)) }
    ELSE IF suffix(file_path) = ".pdf"
    THEN { Returns(Log(w, "extract"), text_strip(text)) : text \in FileTexts(file_path) }
         \cup { Raises(Log(w, "extract"), Exception(<<"Failed to open file">>)) }
    ELSE IF suffix(file_path) \in {".txt", ".md", ".markdown"}
    THEN { Returns(Log(w, "extract"), text_strip(text)) : text \in FileTexts(file_path) }
         \cup { Raises(Log(w, "extract"), Exception(<<"invalid start byte">>)) }
    ELSE { Raises(w, Exception(<<"Formato no soportado: ", suffix(file_path),
                                 ". Soportados: .pdf, .txt, .md">>)) }

\* f"{file_name}_{i}"
record_id(file_name, i) == <<file_name, "_", ToString(i)>>

\* Lines 175-187: the records collection.add is given, chunk 1 of the list with index 0
NewRecords(file_name, file_path, chunks) ==
    { [id |-> record_id(file_name, i - 1), document |-> chunks[i], filename |-> file_name,
       file_path |-> file_path, chunk_index |-> i - 1] : i \in 1..Len(chunks) }

\* A get that returns the ids of all the records
collection_get_unfiltered(w, file_name) ==
    { Returns(Log(w, "get"), { r.id : r \in w.records }),
      Raises(Log(Log(w, "get"), "cleanup_error"),
             Exception(<<"sqlite", ":", "disk", "I/O", "error">>)) }

\* collection.get(where={"filename": file_name})['ids']
collection_get(w, file_name) ==
    { Returns(Log(w, "get"), { r.id : r \in { x \in w.records : x.filename = file_name } }),
      Raises(Log(Log(w, "get"), "cleanup_error"),
             Exception(<<"sqlite", ":", "disk", "I/O", "error">>)) }

\* A delete that leaves the records in the collection
collection_delete_nothing(w, ids) ==
    { Returns(Log(w, "delete"), 0),
      Raises(Log(Log(w, "delete"), "cleanup_error"),
             Exception(<<"sqlite", ":", "disk", "I/O", "error">>)) }

\* collection.delete(ids=ids)
collection_delete(w, ids) ==
    { Returns([Log(w, "delete") EXCEPT !.records = { r \in @ : r.id \notin ids }], 0),
      Raises(Log(Log(w, "delete"), "cleanup_error"),
             Exception(<<"sqlite", ":", "disk", "I/O", "error">>)) }

\* collection.add(...): the records whose id the collection does not hold are added,
\* a record whose id it holds is left as it is; no records at all is an error
collection_add(w, new) ==
    { Raises(Log(w, "add"), Exception(<<"sqlite", ":", "disk", "I/O", "error">>)) }
    \cup IF new = {}
         THEN {}
         ELSE { Returns([Log(w, "add") EXCEPT
                            !.records = @ \cup { r \in new : \A x \in w.records : x.id # r.id }], 0) }

\* collection.count()
collection_count(w) == { Returns(Log(w, "count"), Cardinality(w.records)) }

\* Distances of a match, in units of 0.0001; a distance can be over 1
Distances == {2500, 12000}

\* Lists of n different records of records, each with a distance, nearest first
Matches(recs, n) ==
    { m \in [1..n -> [record : recs, distance : Distances]] :
         /\ \A i, j \in 1..n : i # j => m[i].record # m[j].record
         /\ \A i \in 1..(n - 1) : m[i].distance <= m[i + 1].distance }

\* collection.query(query_embeddings, n_results, include): n_results below 1 is an
\* error
collection_query(w, n_results) ==
    { Raises(Log(w, "query"), Exception(<<"sqlite", ":", "disk", "I/O", "error">>)) }
    \cup IF n_results < 1
         THEN { Raises(Log(w, "query"),
                       [type |-> "TypeError",
                        msg |-> <<"Number of requested results ", ToString(n_results),
                                  ", cannot be negative, or zero.">>]) }
         ELSE { Returns([Log(w, "query") EXCEPT !.matches = m], m) :
                   m \in Matches(w.records, IF n_results < Cardinality(w.records)
                                            THEN n_results ELSE Cardinality(w.records)) }

---------------------------------------------------------------------------
(* google_adk_rag_tools/tools.py: add_document_to_knowledge_base *)

\* round(time.time() - start_time, 2): some time
Elapsed == 1

AddFailure(message, processing_time) ==
    [success |-> FALSE, message |-> message, chunks_added |-> 0,
     processing_time |-> processing_time]

AddSuccess(file_name, file_path, chunks_added) ==
    [success |-> TRUE, message |-> <<"Documento '", file_name, "' procesado exitosamente">>,
     chunks_added |-> chunks_added, processing_time |-> Elapsed, file_name |-> file_name,
     file_path |-> file_path]

\* Lines 166-170 with no handler: an error of get or of delete ends the ingestion
delete_existing_or_raise(w, file_name) ==
    Bind(collection_get(w, file_name),
         LAMBDA g : IF g.exc # NoExc THEN {g}
                    ELSE IF g.ret = {} THEN { Returns(g.w, 0) }
                    ELSE collection_delete(g.w, g.ret))

\* Lines 166-172: an error of get or of delete is passed over
delete_existing(w, file_name) ==
    Bind(collection_get(w, file_name),
         LAMBDA g : IF g.exc # NoExc \/ g.ret = {}
                    THEN { Returns(g.w, 0) }
                    ELSE { Returns(d.w, 0) : d \in collection_delete(g.w, g.ret) })

\* Lines 156-172: the chunks, their embeddings, the collection, and the records
\* of the file name deleted; returns the chunks
ingest_prepare(w, file_path, text) ==
    LET run == _chunk_text(text, DEFAULT_CHUNK_SIZE, DEFAULT_OVERLAP)
        chunks == run.chunks
        file_name == basename(file_path)
        chunked == [Log(w, "chunk") EXCEPT !.chunked = Len(chunks)]
    IN  IF run.pc = "raised"
        THEN { Raises(Log(w, "chunk"), [type |-> "IndexError", msg |-> <<"string index out of range">>]) }
        ELSE Bind(Bind(Bind(Bind(tools_get_embedding_model(chunked),
                                 LAMBDA m : IF m.exc # NoExc THEN {m} ELSE encode(m.w)),
                            LAMBDA e : IF e.exc # NoExc THEN {e} ELSE _get_chroma_collection(e.w)),
                       LAMBDA c : IF c.exc # NoExc THEN {c} ELSE delete_existing(c.w, file_name)),
                  LAMBDA d : IF d.exc # NoExc THEN {d} ELSE { Returns(d.w, chunks) })

\* Lines 175-196: the new records added, and the result
ingest_add(w, file_path, chunks) ==
    LET file_name == basename(file_path)
    IN  Bind(collection_add(w, NewRecords(file_name, file_path, chunks)),
             LAMBDA a : IF a.exc # NoExc
                        THEN {a}
                        ELSE { Returns(a.w, AddSuccess(file_name, file_path, Len(chunks))) })

\* Lines 156-196
ingest_text(w, file_path, text) ==
    Bind(ingest_prepare(w, file_path, text),
         LAMBDA p : IF p.exc # NoExc THEN {p} ELSE ingest_add(p.w, file_path, p.ret))

\* Lines 135-196 without the handler of lines 198-204
add_document_uncaught(w, file_path) ==
    IF file_path.type # "str" \/ file_path.value = ""
    THEN { Returns(w, AddFailure(<<"file_path debe ser una cadena valida">>, 0)) }
    ELSE Bind(_extract_text(w, file_path.value),
              LAMBDA x : IF x.exc # NoExc THEN {x}
                         ELSE IF x.ret = <<>>
                         THEN { Returns(x.w, AddFailure(<<"No se pudo extraer texto del archivo">>,
                                                        Elapsed)) }
                         ELSE ingest_text(x.w, file_path.value, x.ret))

\* Lines 135-204: the outcomes of add_document_to_knowledge_base(file_path).
\* Messages are written without their accents.
add_document(w, file_path) ==
    IF file_path.type # "str" \/ file_path.value = ""
    THEN { Returns(w, AddFailure(<<"file_path debe ser una cadena valida">>, 0)) }
    ELSE LET body == Bind(_extract_text(w, file_path.value),
                          LAMBDA x : IF x.exc # NoExc THEN {x}
                                     ELSE IF x.ret = <<>>
                                     THEN { Returns(x.w, AddFailure(<<"No se pudo extraer texto del archivo">>,
                                                                    Elapsed)) }
                                     ELSE ingest_text(x.w, file_path.value, x.ret))
         IN  { IF o.exc # NoExc
               THEN Returns([o.w EXCEPT !.fault = o.exc],
                            AddFailure(<<"Error procesando documento: ">> \o o.exc.msg, Elapsed))
               ELSE o : o \in body }

\* Lines 198-204: the handler of add_document_to_knowledge_base on outcome o
add_document_except(o) ==
    IF o.exc # NoExc
    THEN Returns([o.w EXCEPT !.fault = o.exc],
                 AddFailure(<<"Error procesando documento: ">> \o o.exc.msg, Elapsed))
    ELSE o

\* Lines 135-172 and 198-204: add_document_to_knowledge_base(file_path) up to the
\* add. The call has ended with a result, or has deleted the records of the file
\* name and goes on to line 175 with the chunks it returns as [chunks |-> ...].
add_document_until_add(w, file_path) ==
    IF file_path.type # "str" \/ file_path.value = ""
    THEN { Returns(w, AddFailure(<<"file_path debe ser una cadena valida">>, 0)) }
    ELSE LET body == Bind(_extract_text(w, file_path.value),
                          LAMBDA x : IF x.exc # NoExc THEN {x}
                                     ELSE IF x.ret = <<>>
                                     THEN { Returns(x.w, AddFailure(<<"No se pudo extraer texto del archivo">>,
                                                                    Elapsed)) }
                                     ELSE { IF p.exc # NoExc THEN p
                                            ELSE Returns(p.w, [chunks |-> p.ret]) :
                                               p \in ingest_prepare(x.w, file_path.value, x.ret) })
         IN  { add_document_except(o) : o \in body }

\* Lines 175-204: add_document_to_knowledge_base(file_path) from the add on
add_document_from_add(w, file_path, chunks) ==
    { add_document_except(o) : o \in ingest_add(w, file_path.value, chunks) }

---------------------------------------------------------------------------
(* google_adk_rag_tools/tools.py: query_knowledge_base *)

\* 1.0 in the units of Distances
One == 10000

\* A match as a result, with the distance as its score
formatted_result_by_distance(match) ==
    [content |-> match.record.document, score |-> match.distance,
     source |-> match.record.filename, file_path |-> match.record.file_path,
     chunk_index |-> match.record.chunk_index]

\* Lines 249-260: a match as a result. The distances are whole numbers of 0.0001, so
\* that round(score, 4) is score.
formatted_result(match) ==
    [content |-> match.record.document, score |-> One - match.distance,
     source |-> match.record.filename, file_path |-> match.record.file_path,
     chunk_index |-> match.record.chunk_index]

\* Lines 247-260
formatted_results(matches) == [i \in 1..Len(matches) |-> formatted_result(matches[i])]

\* Lines 262-269 of tools.py, lines 48-55 of retrieval.py
found_message(results) ==
    IF results # <<>>
    THEN <<"Encontrados ", ToString(Len(results)), " documento(s) relevante(s)">>
    ELSE <<"No se encontraron documentos relevantes">>

\* Lines 223-229
QueryRejected ==
    [success |-> FALSE, message |-> <<"query debe ser una cadena no vacia">>,
     results_count |-> 0, results |-> <<>>, processing_time |-> 0]

\* Lines 262-269
QuerySuccess(query, results) ==
    [success |-> TRUE, query |-> text_strip(query), results_count |-> Len(results),
     results |-> results, processing_time |-> Elapsed, message |-> found_message(results)]

\* Lines 272-279
QueryFailure(query, e) ==
    [success |-> FALSE, query |-> text_strip(query), results_count |-> 0, results |-> <<>>,
     processing_time |-> Elapsed, message |-> <<"Error en consulta: ">> \o e.msg]

\* top_k as it is given
top_k_as_given(top_k) == top_k

\* Lines 231-232
clamp_top_k(top_k) == IF top_k < 1 \/ top_k > 20 THEN 3 ELSE top_k

min(a, b) == IF a <= b THEN a ELSE b

\* Lines 220-279: the outcomes of query_knowledge_base(query, top_k)
query_documents(w, query, top_k) ==
    IF query.type # "str" \/ query.value = <<>> \/ text_strip(query.value) = <<>>
    THEN { Returns(w, QueryRejected) }
    ELSE LET k == clamp_top_k(top_k)
             body ==
                 Bind(Bind(Bind(Bind(tools_get_embedding_model(w),
                                     LAMBDA m : IF m.exc # NoExc THEN {m} ELSE encode(m.w)),
                                LAMBDA e : IF e.exc # NoExc THEN {e} ELSE _get_chroma_collection(e.w)),
                           LAMBDA c : IF c.exc # NoExc THEN {c} ELSE collection_count(c.w)),
                      LAMBDA n : IF n.exc # NoExc THEN {n} ELSE collection_query(n.w, min(k, n.ret)))
         IN  { IF o.exc # NoExc
               THEN Returns([o.w EXCEPT !.fault = o.exc], QueryFailure(query.value, o.exc))
               ELSE Returns(o.w, QuerySuccess(query.value, formatted_results(o.ret))) : o \in body }

---------------------------------------------------------------------------
(* gemini_rag/tools.py and gemini_rag/retrieval.py *)

\* retrieval.py:14
N_RESULTS == 5

\* The records of the collection of the archive
ArchiveRecords ==
    { [id |-> <<ToString(i)>>, document |-> Letters(i + 1), filename |-> "archive.pdf",
       file_path |-> "archive.pdf", chunk_index |-> i] : i \in 0..1 }

\* load_rag.py:131-147
load_chroma_collection(w) ==
    { Returns(w, TRUE), Raises(w, [type |-> "ValueError", msg |-> <<"Collection does not exist">>]) }

\* db.query(query_texts=[query], n_results=n_results, include): the query is embedded by
\* GeminiEmbeddingFunction, which raises without an API key; the archive holds all,
\* some or none of ArchiveRecords
db_query(w, n_results) ==
    { Raises(w, [type |-> "ValueError", msg |-> <<"Gemini API Key not provided">>]) }
    \cup UNION { { Returns(w, m) :
                      m \in Matches(recs, min(n_results, Cardinality(recs))) } :
                 recs \in SUBSET ArchiveRecords }

\* retrieval.py:14-55
get_relevant_passages(w, query, n_results) ==
    Bind(db_query(w, n_results),
         LAMBDA r : IF r.exc # NoExc
                    THEN {r}
                    ELSE { Returns(r.w, [success |-> TRUE, query |-> text_strip(query),
                                         results_count |-> Len(r.ret),
                                         results |-> formatted_results(r.ret),
                                         message |-> found_message(formatted_results(r.ret))]) })

\* tools.py:14-47: the outcomes of search_case_archives(query)
search_archives(w, query) ==
    Bind(load_chroma_collection(w),
         LAMBDA db : IF db.exc # NoExc THEN {db} ELSE get_relevant_passages(db.w, query, N_RESULTS))

---------------------------------------------------------------------------
(* The tools and their caller *)

\* No payload: the tool has not returned
NoPayload == [payload |-> "none"]

\* No tool called yet
NoCall ==
    [op |-> "none", arg |-> None, top_k |-> 0, exc |-> NoExc, result |-> NoPayload,
     ev |-> NoToolEvents, chunked |-> -1, matches |-> <<>>, fault |-> NoExc, before |-> {}]

\* The texts given as queries: empty, blank, a word with blanks around it
QueryTexts ==
    { <<>>, <<[c |-> " ", n |-> 2]>>,
      <<[c |-> " ", n |-> 1]>> \o Letters(1) \o <<[c |-> " ", n |-> 1]>> }

\* The values given as top_k
TopKs == {0, 2, 21}

\* No call of add_document_to_knowledge_base under way. overlapped: the last call
\* that ended while the ingestion that ended last was under way
NoIngestion ==
    [pc |-> "idle", file_path |-> None, chunks |-> <<>>, ev |-> NoToolEvents, chunked |-> -1,
     before |-> {}, overlapped |-> NoCall]

\* The state of tools.py when the process starts with no data on disk
ToolsIdle ==
    /\ chunker = NoRun
    /\ tools_model = FALSE
    /\ _collection = FALSE
    /\ records = {}
    /\ call = NoCall
    /\ ingestion = NoIngestion

---------------------------------------------------------------------------
(* Threads *)

\* The thread of the single-threaded process
MainThreads == {1}

Threads == {1, 2}

Queries == UNION { [1..n -> {" ", "q"}] : n \in 0..MaxQueryLen }

\* No dictionary returned
NoAnswer == [result |-> <<"None">>, source_documents |-> <<>>]

\* A thread that runs no call and has run none
IdleFrame ==
    [pc |-> "idle", op |-> "none", query |-> <<>>, attempt |-> 0, documents |-> 0, docs |-> <<>>,
     exc |-> NoExc, ret |-> 0, answer |-> NoAnswer, ev |-> NoEvents, load_error |-> NoExc,
     retrieved |-> <<>>, prev |-> [op |-> "none", raised |-> FALSE]]

\* The frame of a call of op by thread t. prev: the thread's call before this one,
\* and whether it raised. retrieved: the list retriever.invoke returned in this call. load_error: the error logged at line 142 since
\* get_or_create_vectorstore was last called.
NewFrame(t, op) ==
    [IdleFrame EXCEPT !.op = op,
                      !.prev = [op |-> frame[t].op, raised |-> frame[t].exc # NoExc]]

\* The world thread t acts on
World(t) ==
    [vs |-> _vectorstore, emb |-> _embedding_model, hf |-> _hf_pipeline, dir |-> persist_dir,
     pdfs |-> pdf_files, next |-> next_handle, ev |-> frame[t].ev,
     load_error |-> frame[t].load_error]

\* The world at the start of a call of the public API
Fresh(w) == [w EXCEPT !.ev = NoEvents, !.load_error = NoExc]

\* The world as get_or_create_vectorstore is called from _retrieve_documents
Enter(w) ==
    [w EXCEPT !.ev = [e \in Events |-> IF e \in ManagerEvents THEN 0 ELSE w.ev[e]],
              !.load_error = NoExc]

\* Thread t has taken a step to world w and frame f
Commit(t, w, f) ==
    /\ _vectorstore' = w.vs
    /\ _embedding_model' = w.emb
    /\ _hf_pipeline' = w.hf
    /\ persist_dir' = w.dir
    /\ next_handle' = w.next
    /\ frame' = [frame EXCEPT ![t] = [f EXCEPT !.ev = w.ev, !.load_error = w.load_error]]
    /\ UNCHANGED <<pdf_files, context_run, tools_vars>>

\* The frame of a call that has ended: its locals are gone
Ended(f) == [f EXCEPT !.pc = "idle", !.attempt = 0, !.documents = 0, !.docs = <<>>]

\* get_or_create_vectorstore returns handle: to the caller of the public function, or
\* to line 244 of _retrieve_documents
goc_return(f, handle) ==
    IF f.op = "query_rag_system_local"
    THEN [f EXCEPT !.pc = "search", !.documents = 0, !.ret = handle]
    ELSE Ended([f EXCEPT !.ret = handle])

\* An error of get_or_create_vectorstore that no handler of _retrieve_documents
\* catches
goc_raise_uncaught(f, e) ==
    Ended([f EXCEPT !.exc = e])

\* get_or_create_vectorstore raises e: to the caller of the public function, or to
\* line 249 of _retrieve_documents
goc_raise(f, e) ==
    IF f.op = "query_rag_system_local"
    THEN [f EXCEPT !.pc = "except", !.documents = 0, !.exc = e]
    ELSE Ended([f EXCEPT !.exc = e])

\* query_rag_system_local returns
qry_return(f, result, source_documents) ==
    Ended([f EXCEPT !.exc = NoExc,
                    !.answer = [result |-> result, source_documents |-> source_documents]])

\* The run can still construct the n handles a call constructs at most when none is
\* cached, one fewer when one is
HandlesLeft(n) ==
    next_handle + (IF _vectorstore # 0 THEN n - 2 ELSE n - 1) <= MaxHandles

Init ==
    /\ _vectorstore = 0
    /\ _embedding_model = FALSE
    /\ _hf_pipeline = FALSE
    /\ persist_dir \in DirStates
    /\ pdf_files \in 0..MaxPdfFiles
    /\ next_handle = 1
    /\ frame = [t \in Threads |-> IdleFrame]
    /\ context_run = NoContextRun
    /\ ToolsIdle

---------------------------------------------------------------------------
(* get_or_create_vectorstore *)

\* A caller calls get_or_create_vectorstore()
call_get_or_create_vectorstore(t) ==
    /\ frame[t].pc = "idle"
    /\ HandlesLeft(1)
    /\ Commit(t, Fresh(World(t)), [NewFrame(t, "get_or_create_vectorstore") EXCEPT !.pc = "goc"])

\* A first step that never uses the cached handle
goc_cached_never(t) ==
    /\ frame[t].pc = "goc"
    /\ Commit(t, World(t), [frame[t] EXCEPT !.pc = "goc_load"])

\* A first step that remembers the failure of the call before and raises at once
goc_cached_latched(t) ==
    /\ frame[t].pc = "goc"
    /\ IF _vectorstore # 0
       THEN Commit(t, World(t), goc_return(frame[t], _vectorstore))
       ELSE IF frame[t].prev = [op |-> "get_or_create_vectorstore", raised |-> TRUE]
       THEN Commit(t, World(t), goc_raise(frame[t], Exception(<<"FAILED">>)))
       ELSE Commit(t, World(t), [frame[t] EXCEPT !.pc = "goc_load"])

\* Lines 161-164: the cached handle, if there is one
goc_cached(t) ==
    /\ frame[t].pc = "goc"
    /\ IF _vectorstore # 0
       THEN Commit(t, World(t), goc_return(frame[t], _vectorstore))
       ELSE Commit(t, World(t), [frame[t] EXCEPT !.pc = "goc_load"])

\* Lines 167-169
goc_load(t) ==
    /\ frame[t].pc = "goc_load"
    /\ \E l \in _load_existing_vectorstore(World(t)) :
          LET w == [l.w EXCEPT !.vs = l.ret]
          IN  IF l.exc # NoExc
              THEN Commit(t, l.w, goc_raise(frame[t], l.exc))
              ELSE IF l.ret # 0
              THEN Commit(t, w, goc_return(frame[t], l.ret))
              ELSE Commit(t, w, [frame[t] EXCEPT !.pc = "goc_documents"])

\* Lines 170-179 without the check of line 173
goc_documents_unchecked(t) ==
    /\ frame[t].pc = "goc_documents"
    /\ \E d \in _load_pdf_documents(World(t)) :
          Commit(t, d.w, [frame[t] EXCEPT !.pc = "goc_clean", !.documents = d.ret])

\* Lines 170-179
goc_documents(t) ==
    /\ frame[t].pc = "goc_documents"
    /\ \E d \in _load_pdf_documents(World(t)) :
          IF d.ret = 0
          THEN Commit(t, d.w, goc_raise(frame[t], NoSourceDocuments))
          ELSE Commit(t, d.w, [frame[t] EXCEPT !.pc = "goc_clean", !.documents = d.ret])

\* Line 182
goc_clean(t) ==
    /\ frame[t].pc = "goc_clean"
    /\ \E c \in _clean_vectorstore_directory(World(t)) :
          Commit(t, c.w, [frame[t] EXCEPT !.pc = "goc_build"])

\* Lines 184-188 going on to the second build with no clean
goc_build_no_clean(t) ==
    /\ frame[t].pc = "goc_build"
    /\ \E b \in _build_vectorstore(World(t), frame[t].documents) :
          IF b.exc = NoExc
          THEN Commit(t, [b.w EXCEPT !.vs = b.ret], goc_return(frame[t], b.ret))
          ELSE Commit(t, b.w, [frame[t] EXCEPT !.pc = "goc_retry_build"])

\* Lines 184-188
goc_build(t) ==
    /\ frame[t].pc = "goc_build"
    /\ \E b \in _build_vectorstore(World(t), frame[t].documents) :
          IF b.exc = NoExc
          THEN Commit(t, [b.w EXCEPT !.vs = b.ret], goc_return(frame[t], b.ret))
          ELSE Commit(t, b.w, [frame[t] EXCEPT !.pc = "goc_retry_clean"])

\* Line 190
goc_retry_clean(t) ==
    /\ frame[t].pc = "goc_retry_clean"
    /\ \E c \in _clean_vectorstore_directory(World(t)) :
          Commit(t, c.w, [frame[t] EXCEPT !.pc = "goc_retry_build"])

\* Lines 191-194
goc_retry_build(t) ==
    /\ frame[t].pc = "goc_retry_build"
    /\ \E b \in _build_vectorstore(World(t), frame[t].documents) :
          IF b.exc = NoExc
          THEN Commit(t, [b.w EXCEPT !.vs = b.ret], goc_return(frame[t], b.ret))
          ELSE Commit(t, b.w, goc_raise(frame[t], b.exc))

get_or_create_vectorstore(t) ==
    \/ goc_cached(t)
    \/ goc_load(t)
    \/ goc_documents(t)
    \/ goc_clean(t)
    \/ goc_build(t)
    \/ goc_retry_clean(t)
    \/ goc_retry_build(t)

---------------------------------------------------------------------------
(* reset_vectorstore *)

\* A caller calls reset_vectorstore()
call_reset_vectorstore(t) ==
    /\ frame[t].pc = "idle"
    /\ \E r \in reset_vectorstore(Fresh(World(t))) :
          Commit(t, r.w, NewFrame(t, "reset_vectorstore"))

---------------------------------------------------------------------------
(* query_rag_system_local and _retrieve_documents *)

\* A guard that tests the query as it is, not stripped
call_query_rag_system_local_no_strip(t) ==
    /\ frame[t].pc = "idle"
    /\ \E query \in Queries :
          LET w == Fresh(World(t))
              f == [NewFrame(t, "query_rag_system_local") EXCEPT !.query = query]
          IN  IF query = <<>>
              THEN Commit(t, w, qry_return(f, <<"Please provide a valid query.">>, <<>>))
              ELSE /\ HandlesLeft(2)
                   /\ Commit(t, Enter(Log(w, "attempt")), [f EXCEPT !.pc = "goc", !.attempt = 0])

\* A caller calls query_rag_system_local(query): lines 274-283, and the first
\* iteration of the loop of _retrieve_documents up to its call of
\* get_or_create_vectorstore
call_query_rag_system_local(t) ==
    /\ frame[t].pc = "idle"
    /\ \E query \in Queries :
          LET w == Fresh(World(t))
              f == [NewFrame(t, "query_rag_system_local") EXCEPT !.query = query]
          IN  IF strip(query) = <<>>
              THEN Commit(t, w, qry_return(f, <<"Please provide a valid query.">>, <<>>))
              ELSE /\ HandlesLeft(2)
                   /\ Commit(t, Enter(Log(w, "attempt")), [f EXCEPT !.pc = "goc", !.attempt = 0])

\* Lines 244-247 of _retrieve_documents, and lines 285-295 of query_rag_system_local
\* when the search returns
retrieve_search(t) ==
    /\ frame[t].pc = "search"
    /\ \E s \in invoke_retriever(World(t), frame[t].query, RETRIEVAL_K) :
          IF s.exc # NoExc
          THEN Commit(t, s.w, [frame[t] EXCEPT !.pc = "except", !.exc = s.exc])
          ELSE IF s.ret = <<>>
          THEN Commit(t, s.w, qry_return(frame[t], <<"No relevant documents found for your query.">>, <<>>))
          ELSE Commit(t, s.w, [frame[t] EXCEPT !.pc = "generate", !.docs = s.ret, !.retrieved = s.ret])

\* A handler that drops the cached handle and leaves the directory
retrieve_except_keeps_directory(t) ==
    /\ frame[t].pc = "except"
    /\ LET f == frame[t]
           e == f.exc
       IN  IF f.attempt = 0 /\ _is_database_error(e)
           THEN Commit(t, Enter(Log([Log(World(t), "reset") EXCEPT !.vs = 0], "attempt")),
                       [f EXCEPT !.pc = "goc", !.attempt = @ + 1, !.exc = NoExc])
           ELSE Commit(t, World(t),
                       qry_return(f, <<"Error processing query: ", "Error retrieving documents: ">> \o e.msg,
                                  <<>>))

\* A handler that recovers on every attempt, not only the first
retrieve_except_every_attempt(t) ==
    /\ frame[t].pc = "except"
    /\ LET f == frame[t]
           e == f.exc
       IN  IF _is_database_error(e)
           THEN \E r \in reset_vectorstore(World(t)) :
                   IF f.attempt + 1 <= MAX_RETRIES
                   THEN Commit(t, Enter(Log(r.w, "attempt")),
                               [f EXCEPT !.pc = "goc", !.attempt = @ + 1, !.exc = NoExc])
                   ELSE Commit(t, r.w,
                               qry_return(f, <<"Error processing query: ",
                                               "Failed to retrieve documents after recovery attempt">>, <<>>))
           ELSE Commit(t, World(t),
                       qry_return(f, <<"Error processing query: ", "Error retrieving documents: ">> \o e.msg,
                                  <<>>))

\* Lines 249-262 of _retrieve_documents, and lines 285-289 of query_rag_system_local
\* when it returns an error message
retrieve_except(t) ==
    /\ frame[t].pc = "except"
    /\ LET f == frame[t]
           e == f.exc
       IN  IF f.attempt = 0 /\ _is_database_error(e)
           THEN \E r \in reset_vectorstore(World(t)) :
                   IF f.attempt + 1 <= MAX_RETRIES
                   THEN Commit(t, Enter(Log(r.w, "attempt")),
                               [f EXCEPT !.pc = "goc", !.attempt = @ + 1, !.exc = NoExc])
                   ELSE Commit(t, r.w,
                               qry_return(f, <<"Error processing query: ",
                                               "Failed to retrieve documents after recovery attempt">>, <<>>))
           ELSE Commit(t, World(t),
                       qry_return(f, <<"Error processing query: ", "Error retrieving documents: ">> \o e.msg,
                                  <<>>))

\* An answer that leaves out the last document when the context was cut
query_generate_sources_in_context(t) ==
    /\ frame[t].pc = "generate"
    /\ LET f == frame[t]
           context == _build_context_from_docs(f.docs, MAX_CONTEXT_LENGTH)
           prompt == _format_prompt(context, f.query)
           sources == IF Len(context) = MAX_CONTEXT_LENGTH
                      THEN SubSeq(f.docs, 1, Len(f.docs) - 1)
                      ELSE f.docs
       IN  \E g \in _generate_response(World(t), prompt) :
              IF g.exc # NoExc
              THEN Commit(t, g.w, Ended([f EXCEPT !.exc = g.exc]))
              ELSE Commit(t, g.w, qry_return(f, strip(g.ret), sources))

\* Lines 297-307
query_generate(t) ==
    /\ frame[t].pc = "generate"
    /\ LET f == frame[t]
           context == _build_context_from_docs(f.docs, MAX_CONTEXT_LENGTH)
           prompt == _format_prompt(context, f.query)
       IN  \E g \in _generate_response(World(t), prompt) :
              IF g.exc # NoExc
              THEN Commit(t, g.w, Ended([f EXCEPT !.exc = g.exc]))
              ELSE Commit(t, g.w, qry_return(f, strip(g.ret), f.docs))

query_rag_system_local(t) ==
    \/ retrieve_search(t)
    \/ retrieve_except(t)
    \/ query_generate(t)

---------------------------------------------------------------------------
(* The environment *)

AllIdle == \A t \in Threads : frame[t].pc = "idle"

\* Files are put into or taken out of PDF_DIRECTORY
ChangePdfs ==
    /\ AllIdle
    /\ pdf_files' \in (0..MaxPdfFiles) \ {pdf_files}
    /\ UNCHANGED <<_vectorstore, _embedding_model, _hf_pipeline, persist_dir, next_handle, frame>>
    /\ UNCHANGED <<context_run, tools_vars>>

\* The persistence directory changes on disk under the process
ChangeDisk ==
    /\ AllIdle
    /\ persist_dir' \in DirStates \ {persist_dir}
    /\ UNCHANGED <<_vectorstore, _embedding_model, _hf_pipeline, pdf_files, next_handle, frame>>
    /\ UNCHANGED <<context_run, tools_vars>>

---------------------------------------------------------------------------
(* The single-threaded process *)

Step(t) ==
    \/ call_get_or_create_vectorstore(t)
    \/ get_or_create_vectorstore(t)
    \/ call_reset_vectorstore(t)
    \/ call_query_rag_system_local(t)
    \/ query_rag_system_local(t)

Next == (\E t \in MainThreads : Step(t)) \/ ChangePdfs \/ ChangeDisk

Spec == Init /\ [][Next]_vars

---------------------------------------------------------------------------
(* Two threads in get_or_create_vectorstore *)

(* The threads take turns between the steps of get_or_create_vectorstore: the    *)
(* check of the handle, the load, the scan of the documents, each clean, each   *)
(* build.  These are some of the interleavings the interpreter allows, which    *)
(* switches threads between any two bytecodes.  Each thread makes one call.     *)

\* The first call of thread t
first_call_get_or_create_vectorstore(t) ==
    /\ frame[t].op = "none"
    /\ call_get_or_create_vectorstore(t)

RaceNext ==
    \E t \in Threads :
        \/ first_call_get_or_create_vectorstore(t)
        \/ get_or_create_vectorstore(t)

RaceSpec == Init /\ [][RaceNext]_vars

---------------------------------------------------------------------------
(* Runs of _build_context_from_docs *)

ContextInit ==
    /\ _vectorstore = 0
    /\ _embedding_model = FALSE
    /\ _hf_pipeline = FALSE
    /\ persist_dir = "absent"
    /\ pdf_files = 0
    /\ next_handle = 1
    /\ frame = [t \in Threads |-> IdleFrame]
    /\ ToolsIdle
    /\ context_run \in { [pc |-> "called", docs |-> i[1], max_length |-> i[2], context |-> <<>>] :
                            i \in ContextInputs }

\* Lines 205-209
build_context_from_docs ==
    /\ context_run.pc = "called"
    /\ context_run' =
           [context_run EXCEPT !.pc = "returned",
                               !.context = _build_context_from_docs(context_run.docs,
                                                                    context_run.max_length)]
    /\ UNCHANGED <<_vectorstore, _embedding_model, _hf_pipeline, persist_dir, pdf_files,
                   next_handle, frame, tools_vars>>

ContextSpec == ContextInit /\ [][build_context_from_docs]_vars

---------------------------------------------------------------------------
(* The process that uses the tools *)

\* The state of pdf_loader.py in a process that does not call it
LoaderIdle ==
    /\ _vectorstore = 0
    /\ _embedding_model = FALSE
    /\ _hf_pipeline = FALSE
    /\ persist_dir = "absent"
    /\ pdf_files = 0
    /\ next_handle = 1
    /\ frame = [t \in Threads |-> IdleFrame]
    /\ context_run = NoContextRun

\* A tool has ended with outcome o; before: the records when it was called
Called(op, arg, top_k, o) ==
    /\ tools_model' = o.w.model
    /\ _collection' = o.w.coll
    /\ records' = o.w.records
    /\ call' = [op |-> op, arg |-> arg, top_k |-> top_k, exc |-> o.exc,
                result |-> IF o.exc = NoExc THEN o.ret ELSE NoPayload,
                ev |-> o.w.ev, chunked |-> o.w.chunked, matches |-> o.w.matches,
                fault |-> o.w.fault, before |-> records]
    /\ UNCHANGED <<loader_vars, chunker, ingestion>>

add_document_to_knowledge_base ==
    \E file_path \in { Str(p) : p \in Paths } \cup {None} :
        \E o \in add_document(ToolWorld, file_path) :
            Called("add_document_to_knowledge_base", file_path, 0, o)

query_knowledge_base ==
    \E query \in { Str(t) : t \in QueryTexts } \cup {None}, top_k \in TopKs :
        \E o \in query_documents(ToolWorld, query, top_k) :
            Called("query_knowledge_base", query, top_k, o)

search_case_archives ==
    \E query \in { Str(t) : t \in QueryTexts } :
        \E o \in search_archives(ToolWorld, query.value) :
            Called("search_case_archives", query, 0, o)

\* The process ends and another starts: the globals are None again, the records are
\* on disk
restart ==
    /\ tools_model \/ _collection
    /\ tools_model' = FALSE
    /\ _collection' = FALSE
    /\ call' = NoCall
    /\ UNCHANGED <<loader_vars, chunker, records, ingestion>>

ToolsInit == LoaderIdle /\ ToolsIdle

ToolsNext ==
    \/ add_document_to_knowledge_base
    \/ query_knowledge_base
    \/ search_case_archives
    \/ restart

ToolsSpec == ToolsInit /\ [][ToolsNext]_vars

---------------------------------------------------------------------------
(* A call of add_document_to_knowledge_base beside calls of query_knowledge_base *)

\* The paths ingested and the queries asked beside an ingestion
RacePaths == {"", "case.pdf", "notes.txt"}

RaceQueries == { Str(Letters(1)) }

RaceTopKs == {2}

\* Lines 135-172: the call ends before the add, or has deleted the records of the
\* file name and stands before line 175
ingest_begin ==
    /\ ingestion.pc = "idle"
    /\ \E file_path \in { Str(p) : p \in RacePaths } :
          \E o \in add_document_until_add(ToolWorld, file_path) :
              IF "chunks" \in DOMAIN o.ret
              THEN /\ tools_model' = o.w.model
                   /\ _collection' = o.w.coll
                   /\ records' = o.w.records
                   /\ ingestion' = [pc |-> "add", file_path |-> file_path, chunks |-> o.ret.chunks,
                                    ev |-> o.w.ev, chunked |-> o.w.chunked, before |-> records,
                                    overlapped |-> NoCall]
                   /\ call' = [NoCall EXCEPT !.op = "pending", !.arg = file_path,
                                             !.before = records]
                   /\ UNCHANGED <<loader_vars, chunker>>
              ELSE Called("add_document_to_knowledge_base", file_path, 0, o)

\* Lines 175-204: the add, and the result of the call
ingest_finish ==
    /\ ingestion.pc = "add"
    /\ \E o \in add_document_from_add([ToolWorld EXCEPT !.ev = ingestion.ev,
                                                        !.chunked = ingestion.chunked],
                                       ingestion.file_path, ingestion.chunks) :
          /\ tools_model' = o.w.model
          /\ _collection' = o.w.coll
          /\ records' = o.w.records
          /\ call' = [op |-> "add_document_to_knowledge_base", arg |-> ingestion.file_path,
                      top_k |-> 0, exc |-> o.exc, result |-> o.ret, ev |-> o.w.ev,
                      chunked |-> o.w.chunked, matches |-> o.w.matches, fault |-> o.w.fault,
                      before |-> ingestion.before]
          /\ ingestion' = [NoIngestion EXCEPT !.overlapped = call]
          /\ UNCHANGED <<loader_vars, chunker>>

\* query_knowledge_base(query, top_k), called by another thread
query_beside_ingestion ==
    \E query \in RaceQueries, top_k \in RaceTopKs :
        \E o \in query_documents(ToolWorld, query, top_k) :
            Called("query_knowledge_base", query, top_k, o)

IngestRaceNext == ingest_begin \/ ingest_finish \/ query_beside_ingestion

IngestRaceSpec == ToolsInit /\ [][IngestRaceNext]_vars

---------------------------------------------------------------------------
(* Runs of _chunk_text *)

ChunkInit ==
    /\ LoaderIdle
    /\ tools_model = FALSE
    /\ _collection = FALSE
    /\ records = {}
    /\ call = NoCall
    /\ ingestion = NoIngestion
    /\ chunker \in { chunk_called(i[1], i[2], i[3]) : i \in ChunkInputs }

\* Lines 96-102
chunk_text_enter ==
    /\ chunker.pc = "called"
    /\ chunker' = chunk_enter(chunker)
    /\ UNCHANGED <<loader_vars, tools_model, _collection, records, call, ingestion>>

\* Lines 103-118, once
chunk_text_iteration ==
    /\ chunker.pc = "loop"
    /\ chunker' = chunk_iteration(chunker)
    /\ UNCHANGED <<loader_vars, tools_model, _collection, records, call, ingestion>>

ChunkNext == chunk_text_enter \/ chunk_text_iteration

ChunkSpec == ChunkInit /\ [][ChunkNext]_vars

---------------------------------------------------------------------------
(* Properties *)

GocPcs == {"goc", "goc_load", "goc_documents", "goc_clean", "goc_build", "goc_retry_clean",
           "goc_retry_build"}

\* Where get_or_create_vectorstore returns to, and where it raises to
ReturnPc(f) == IF f.op = "query_rag_system_local" THEN "search" ELSE "idle"

RaisePc(f) == IF f.op = "query_rag_system_local" THEN "except" ELSE "idle"

\* C1: whenever a handle is cached, get_or_create_vectorstore returns that handle in
\* its first step and does nothing else: it does not inspect, open or clean the
\* persistence directory, does not read the source directory, builds nothing and
\* changes no global, whatever the directory holds.
C1_CachedHandleReturnedUntouched ==
    [][\A t \in MainThreads :
          LET f == frame[t]
              g == frame'[t]
          IN  (f.pc = "goc" /\ _vectorstore # 0)
                  => /\ g.ret = _vectorstore
                     /\ g.exc = NoExc
                     /\ g.pc = ReturnPc(f)
                     /\ g.ev = f.ev
                     /\ \A e \in ManagerEvents : g.ev[e] = 0
                     /\ UNCHANGED <<_vectorstore, _embedding_model, _hf_pipeline, persist_dir,
                                    pdf_files, next_handle>>]_vars

\* A call of get_or_create_vectorstore has returned the cached handle while the
\* directory it came from no longer exists
C1_Witness ==
    \E t \in MainThreads :
        /\ frame[t].op = "get_or_create_vectorstore"
        /\ frame[t].pc = "idle"
        /\ frame[t].ret # 0
        /\ frame[t].ret = _vectorstore
        /\ frame[t].ev = NoEvents
        /\ persist_dir = "absent"

HasDiskIOError(e) == contains(e.msg, <<"disk", "I/O", "error">>)

C3_NoSourceDocuments ==
    [][\A t \in MainThreads :
          LET f == frame[t]
              g == frame'[t]
          IN  f.pc = "goc_documents"
                  => /\ _vectorstore = 0
                     /\ f.ev["build"] = 0
                     /\ \/ g.pc = "goc_clean" /\ g.documents > 0 /\ pdf_files > 0
                        \/ /\ g.exc = NoSourceDocuments
                           /\ g.exc.type = "FileNotFoundError"
                           /\ g.pc = RaisePc(f)
                           /\ g.ev["build"] = 0
                           /\ g.ev["clean"] = f.ev["clean"]
                           /\ UNCHANGED <<_vectorstore, persist_dir, next_handle>>
                     /\ pdf_files = 0 => g.pc # "goc_clean"]_vars

\* A call of get_or_create_vectorstore right after one that raised has raised
\* FileNotFoundError again, the open having failed, with no build and no handle
C3_Witness ==
    \E t \in MainThreads :
        /\ frame[t].op = "get_or_create_vectorstore"
        /\ frame[t].pc = "idle"
        /\ frame[t].prev = [op |-> "get_or_create_vectorstore", raised |-> TRUE]
        /\ frame[t].exc = NoSourceDocuments
        /\ frame[t].ev["open"] = 1
        /\ frame[t].ev["build"] = 0
        /\ _vectorstore = 0

\* The step of thread t is the body of reset_vectorstore: the call of a caller, or
\* the call of line 253
ResetStep(t) ==
    \/ frame[t].pc = "idle" /\ frame'[t].op = "reset_vectorstore" /\ frame'[t] # frame[t]
    \/ frame[t].pc = "except" /\ frame'[t].ev["reset"] = frame[t].ev["reset"] + 1

C6_FailedUntilReset ==
    \A t \in MainThreads :
        (/\ frame[t].op = "get_or_create_vectorstore"
         /\ frame[t].prev = [op |-> "get_or_create_vectorstore", raised |-> TRUE])
            => \A e \in ManagerEvents : frame[t].ev[e] = 0

\* C6, amended: the handle goes from None to a handle only in a load or a build of
\* get_or_create_vectorstore, and from a handle only to None and only in a reset; a
\* call of get_or_create_vectorstore that raises leaves the handle None, which is the
\* state before any call: the next call, with no reset, starts a new load attempt.
C6_FailureLeavesUninitialized ==
    [][\A t \in MainThreads :
          LET f == frame[t]
              g == frame'[t]
          IN  /\ (_vectorstore = 0 /\ _vectorstore' # 0)
                    => /\ f.pc \in {"goc_load", "goc_build", "goc_retry_build"}
                       /\ _vectorstore' = next_handle
                       /\ g.ret = _vectorstore'
              /\ (_vectorstore # 0 /\ _vectorstore' # _vectorstore)
                    => /\ _vectorstore' = 0
                       /\ ResetStep(t)
              /\ (f.pc \in GocPcs /\ g.pc = RaisePc(f) /\ g.exc # NoExc) => _vectorstore' = 0
              /\ (f.pc = "idle" /\ f.op = "get_or_create_vectorstore" /\ f.exc # NoExc)
                    => _vectorstore = 0
              /\ (f.pc = "goc" /\ _vectorstore = 0)
                    => /\ g.pc = "goc_load"
                       /\ g.exc = NoExc]_vars

\* The call of get_or_create_vectorstore right after one that raised, with no reset in
\* between, has loaded or built a handle and returned it
C6_Witness ==
    \E t \in MainThreads :
        /\ frame[t].op = "get_or_create_vectorstore"
        /\ frame[t].prev = [op |-> "get_or_create_vectorstore", raised |-> TRUE]
        /\ frame[t].pc = "idle"
        /\ frame[t].exc = NoExc
        /\ frame[t].ev["inspect"] = 1
        /\ frame[t].ret # 0
        /\ frame[t].ret = _vectorstore

IsBlank(query) == \A i \in 1..Len(query) : query[i] \in Whitespace

PleaseProvide == [result |-> <<"Please provide a valid query.">>, source_documents |-> <<>>]

\* C8: a call of query_rag_system_local with a query that is empty or all whitespace
\* returns in one step the result "Please provide a valid query." with no source
\* documents, having called nothing: no event is counted, and the handle, the models,
\* the directory and the source documents are unchanged.
C8_EmptyQueryGuard ==
    [][\A t \in MainThreads :
          LET f == frame[t]
              g == frame'[t]
          IN  (f.pc = "idle" /\ g.op = "query_rag_system_local" /\ g # f /\ IsBlank(g.query))
                  => /\ g.pc = "idle"
                     /\ g.answer = PleaseProvide
                     /\ g.exc = NoExc
                     /\ g.ev = NoEvents
                     /\ UNCHANGED <<_vectorstore, _embedding_model, _hf_pipeline, persist_dir,
                                    pdf_files, next_handle>>]_vars

\* query_rag_system_local has answered a query of one blank, with a handle cached
C8_Witness ==
    \E t \in MainThreads :
        /\ frame[t].op = "query_rag_system_local"
        /\ frame[t].pc = "idle"
        /\ frame[t].query = <<" ">>
        /\ frame[t].answer = PleaseProvide
        /\ frame[t].ev = NoEvents
        /\ _vectorstore # 0

\* The messages of the store that the three indicators classify as corruption
CorruptionMessages ==
    { <<"sqlite", ":", "disk", "I/O", "error">>, <<"Database", "Error", ":", "malformed">>,
      <<"Error", "getting", "collection">> }

\* C9: a call of query_rag_system_local makes at most two retrieval attempts and at
\* most one reset; the handler of the first attempt resets and starts the second
\* attempt exactly when the error is classified as corruption; on any other error of
\* the first attempt and on every error of the second attempt it ends the call with an
\* "Error processing query: Error retrieving documents: ..." result, no reset and no
\* further attempt; attempts and resets are started nowhere else.
C9_BoundedRetrieval ==
    [][\A t \in MainThreads :
          LET f == frame[t]
              g == frame'[t]
              recovers == f.ev["attempt"] = 1 /\ f.exc.msg \in CorruptionMessages
          IN  f.op = "query_rag_system_local"
                  => /\ f.ev["attempt"] <= 2
                     /\ f.ev["reset"] <= 1
                     /\ f.pc # "idle" => f.ev["attempt"] >= 1
                     /\ (f.pc # "idle" /\ g.ev # f.ev /\ f.pc # "except")
                           => /\ g.ev["attempt"] = f.ev["attempt"]
                              /\ g.ev["reset"] = f.ev["reset"]
                     /\ (f.pc = "except" /\ recovers)
                           => /\ g.pc = "goc"
                              /\ g.ev["reset"] = 1
                              /\ g.ev["attempt"] = 2
                              /\ _vectorstore' = 0
                     /\ (f.pc = "except" /\ ~recovers)
                           => /\ g.pc = "idle"
                              /\ g.ev = f.ev
                              /\ g.answer.result = <<"Error processing query: ",
                                                     "Error retrieving documents: ">> \o f.exc.msg
                              /\ g.answer.source_documents = <<>>
                              /\ UNCHANGED <<_vectorstore, persist_dir, next_handle>>]_vars

\* A call of query_rag_system_local has ended with the corruption error of its second
\* attempt, after one reset
C9_Witness ==
    \E t \in MainThreads :
        /\ frame[t].op = "query_rag_system_local"
        /\ frame[t].pc = "idle"
        /\ frame[t].ev["attempt"] = 2
        /\ frame[t].ev["reset"] = 1
        /\ frame[t].ev["search"] = 2
        /\ frame[t].answer.result = <<"Error processing query: ", "Error retrieving documents: ",
                                      "sqlite", ":", "disk", "I/O", "error">>

\* The steps a call of query_rag_system_local at f can still take, at most
Rank(f) ==
    LET left == CASE f.pc = "idle" -> 0
                  [] f.pc = "generate" -> 1
                  [] f.pc = "except" -> 2
                  [] f.pc = "search" -> 3
                  [] f.pc = "goc_retry_build" -> 4
                  [] f.pc = "goc_retry_clean" -> 5
                  [] f.pc = "goc_build" -> 6
                  [] f.pc = "goc_clean" -> 7
                  [] f.pc = "goc_documents" -> 8
                  [] f.pc = "goc_load" -> 9
                  [] f.pc = "goc" -> 10
    IN  IF f.pc = "idle" THEN 0 ELSE (MAX_RETRIES + 1 - f.ev["attempt"]) * 11 + left

\* C10: a call of query_rag_system_local that has ended has raised nothing and has
\* returned a result with source documents; a call that has not ended can take a
\* step, and each step brings it nearer to its end, whatever fails in
\* get_or_create_vectorstore, in the search and in the generation; when the pipeline
\* cannot be loaded or the generation fails the result is "Error generating response
\* with the model.".
C10_AnswerNeverRaises ==
    /\ [](\A t \in MainThreads :
             (frame[t].op = "query_rag_system_local" /\ frame[t].pc = "idle")
                 => /\ frame[t].exc = NoExc
                    /\ frame[t].answer # NoAnswer)
    /\ [](\A t \in MainThreads :
             (frame[t].op = "query_rag_system_local" /\ frame[t].pc # "idle")
                 => ENABLED Step(t))
    /\ [][\A t \in MainThreads :
             LET f == frame[t]
                 g == frame'[t]
             IN  (f.op = "query_rag_system_local" /\ f.pc # "idle")
                     => /\ Rank(g) < Rank(f)
                        /\ f.pc = "generate"
                              => /\ g.pc = "idle"
                                 /\ g.answer.source_documents = f.docs
                                 /\ g.answer.source_documents # <<>>
                                 /\ g.answer.result \in {<<"yes">>, <<>>, GenerationError}
                                 /\ (~_hf_pipeline' \/ g.ev["generate"] = 0)
                                       => g.answer.result = GenerationError]_vars

\* query_rag_system_local has returned the fixed string of a failed generation, with
\* the documents retrieved, the build of the first attempt having failed twice
C10_Witness ==
    \E t \in MainThreads :
        /\ frame[t].op = "query_rag_system_local"
        /\ frame[t].pc = "idle"
        /\ frame[t].exc = NoExc
        /\ frame[t].answer.result = GenerationError
        /\ frame[t].answer.source_documents # <<>>
        /\ ~_hf_pipeline

---------------------------------------------------------------------------
(* Properties of the tools *)

Ingested == call.op = "add_document_to_knowledge_base"

\* C11: add_document_to_knowledge_base never raises: whatever the argument and
\* whichever of extraction, chunking, embedding, collection access, delete or add
\* fails, it returns a result; a result of a failure has success false,
\* chunks_added 0 and a message; a result of a success has as chunks_added the
\* number of chunks _chunk_text returned.
C11_IngestionNeverRaises ==
    Ingested =>
        /\ call.exc = NoExc
        /\ {"success", "chunks_added", "message"} \subseteq DOMAIN call.result
        /\ call.result.success \in BOOLEAN
        /\ ~call.result.success =>
               call.result.chunks_added = 0 /\ call.result.message # <<>>
        /\ call.result.success =>
               call.chunked >= 1 /\ call.result.chunks_added = call.chunked

\* collection.add failed after three chunks were cut, and the tool returned a failure
C11_Witness ==
    /\ Ingested
    /\ call.exc = NoExc
    /\ ~call.result.success
    /\ call.chunked = 3
    /\ call.ev["add"] = 1

SearchOps == {"query_knowledge_base", "search_case_archives"}

PayloadKeys == {"success", "query", "results_count", "results", "message"}

\* C12: a search tool never raises and always returns a payload with success,
\* query, results_count, results and message, for every query and every failure of
\* the embedding, of the collection or of the search, and when the index holds no
\* record.
C12_SearchNeverRaises ==
    call.op \in SearchOps =>
        /\ call.exc = NoExc
        /\ PayloadKeys \subseteq DOMAIN call.result

\* C13: once an ingestion of source S returns success with N chunks, the index
\* holds exactly N records of S, with ids S_0 .. S_{N-1} and chunk_index 0 .. N-1.
C13_IdempotentReingestion ==
    (Ingested /\ call.exc = NoExc /\ call.result.success) =>
        LET S == call.result.file_name
            N == call.result.chunks_added
            held == { r \in records : r.filename = S }
        IN  /\ Cardinality(held) = N
            /\ { r.id : r \in held } = { record_id(S, i) : i \in 0..(N - 1) }
            /\ { r.chunk_index : r \in held } = 0..(N - 1)

---------------------------------------------------------------------------
(* Properties of _chunk_text *)

ChunkReturned == chunker.pc = "returned"

\* The positions of the text that hold no whitespace
Content(text) == { p \in 0..(len(text) - 1) : char_at(text, p) \notin Whitespace }

\* C14: for every text, chunk size and overlap, every position of the text that
\* holds no whitespace lies in the window of a returned chunk.
C14_ChunkCoverage ==
    ChunkReturned =>
        \A p \in Content(chunker.text) :
            \E i \in 1..Len(chunker.windows) :
                chunker.windows[i][1] <= p /\ p < chunker.windows[i][2]

\* C15: for every text, chunk size and overlap, start grows by at least 1 with
\* every iteration, the loop runs at most len(text) times, and _chunk_text
\* returns.
C15_ChunkerTerminates ==
    [][chunk_text_iteration =>
           /\ chunker'.pc # "raised"
           /\ chunker'.iterations <= len(chunker.text)
           /\ chunker'.pc = "loop" => chunker'.start >= chunker.start + 1]_vars

\* C16: every returned chunk is non-empty and has no whitespace at its ends; a
\* text no longer than the chunk size is returned as one chunk, trimmed.
C16_ChunksTrimmed ==
    ChunkReturned =>
        /\ \A i \in 1..Len(chunker.chunks) :
               chunker.chunks[i] # <<>> /\ chunker.chunks[i] = text_strip(chunker.chunks[i])
        /\ len(chunker.text) <= chunker.chunk_size =>
               chunker.chunks = <<text_strip(chunker.text)>>

\* C17: every returned chunk is at most chunk_size characters long.
C17_ChunkSizeBound ==
    ChunkReturned =>
        \A i \in 1..Len(chunker.chunks) : len(chunker.chunks[i]) <= chunker.chunk_size

---------------------------------------------------------------------------
(* Properties of query_knowledge_base *)

\* query_knowledge_base was called with a query that is not blank
Queried ==
    /\ call.op = "query_knowledge_base"
    /\ call.arg.type = "str"
    /\ text_strip(call.arg.value) # <<>>

\* C18: for an index of count >= 1 records and a query that is not blank,
\* query_knowledge_base, when no collaborator fails, returns success with exactly
\* min(k', count) results, k' being top_k when 1 <= top_k <= 20 and 3 otherwise;
\* results_count is the length of results; no two results have the same source
\* and chunk_index.
C18_TopKResultCount ==
    (Queried /\ Cardinality(call.before) >= 1 /\ call.fault = NoExc) =>
        LET k == IF 1 <= call.top_k /\ call.top_k <= 20 THEN call.top_k ELSE 3
            count == Cardinality(call.before)
            results == call.result.results
        IN  /\ call.exc = NoExc
            /\ call.result.success
            /\ Len(results) = (IF k <= count THEN k ELSE count)
            /\ call.result.results_count = Len(results)
            /\ \A i, j \in 1..Len(results) :
                   (results[i].source = results[j].source
                    /\ results[i].chunk_index = results[j].chunk_index) => i = j

\* The index held the three chunks of case.pdf and nothing else, and a query with
\* top_k = 2 returned two results of case.pdf with different chunk_index
C18_Witness ==
    /\ Queried
    /\ call.top_k = 2
    /\ { r.id : r \in call.before } = { record_id("case.pdf", i) : i \in 0..2 }
    /\ call.result.success
    /\ call.result.results_count = 2
    /\ \A i \in 1..2 : /\ call.result.results[i].source = "case.pdf"
                       /\ call.result.results[i].chunk_index \in 0..2
    /\ call.result.results[1].chunk_index # call.result.results[2].chunk_index

---------------------------------------------------------------------------
(* Properties of two threads in get_or_create_vectorstore *)

\* C20: nothing but the check of the handle at lines 161-162 keeps a thread out of
\* the clean-and-build: with two threads in get_or_create_vectorstore, a thread
\* that found no handle cleans the directory at line 182 or line 190 whatever the
\* other thread has done since, also after the other has built the index and set
\* the handle, and the handle stays set.
C20_ColdStartRace ==
    [][\A t \in Threads :
           (goc_clean(t) \/ goc_retry_clean(t)) =>
               persist_dir' = "absent" /\ _vectorstore' = _vectorstore]_vars

\* Both threads passed the check with no handle set; thread u built the index and
\* returned its handle, and thread t then deleted the directory and is about to
\* build its own
C20_Witness ==
    \E t, u \in Threads :
        /\ t # u
        /\ frame[u].op = "get_or_create_vectorstore"
        /\ frame[u].pc = "idle"
        /\ frame[u].ev["build"] >= 1
        /\ frame[u].ret # 0
        /\ _vectorstore = frame[u].ret
        /\ frame[t].pc = "goc_build"
        /\ frame[t].ev["rmtree"] = 1
        /\ persist_dir = "absent"

---------------------------------------------------------------------------
(* Properties of the load step *)

---------------------------------------------------------------------------
(* Properties of the answer *)

NoRelevantDocuments == <<"No relevant documents found for your query.">>

\* The result is the report of a retrieval error
IsRetrievalError(result) == result # <<>> /\ result[1] = "Error processing query: "

\* C22: in every outcome of query_rag_system_local, source_documents is empty or
\* is the list the retrieval returned, in its order; it is empty for a blank
\* query, for a retrieval error and when no document is retrieved, the result
\* then being "No relevant documents found for your query." with no call of the
\* generation pipeline; it is the whole retrieved list whenever the generation
\* pipeline was called, also when the context was cut and when the generation
\* failed.
C22_SourceDocuments ==
    \A t \in MainThreads :
        LET f == frame[t]
            sources == f.answer.source_documents
        IN  (f.op = "query_rag_system_local" /\ f.pc = "idle")
                => /\ f.exc = NoExc
                   /\ sources = <<>> \/ sources = f.retrieved
                   /\ IsBlank(f.query) => sources = <<>> /\ f.ev["search"] = 0
                   /\ IsRetrievalError(f.answer.result) => sources = <<>> /\ f.retrieved = <<>>
                   /\ (~IsBlank(f.query) /\ ~IsRetrievalError(f.answer.result) /\ f.retrieved = <<>>)
                         => /\ f.answer.result = NoRelevantDocuments
                            /\ sources = <<>>
                            /\ f.ev["generate"] = 0
                   /\ f.ev["generate"] >= 1 => sources = f.retrieved /\ sources # <<>>
                   /\ f.retrieved # <<>> => sources = f.retrieved

\* The generation failed on a context cut to MAX_CONTEXT_LENGTH, and the answer
\* lists both retrieved documents, the second chunk of the index first
C22_Witness ==
    \E t \in MainThreads :
        /\ frame[t].op = "query_rag_system_local"
        /\ frame[t].pc = "idle"
        /\ frame[t].ev["generate"] = 1
        /\ frame[t].answer.result = GenerationError
        /\ frame[t].retrieved = <<2, 1>>
        /\ frame[t].answer.source_documents = <<2, 1>>
        /\ Len(join(<<"\n", "\n">>, <<page_content(2), page_content(1)>>)) > MAX_CONTEXT_LENGTH
        /\ Len(_build_context_from_docs(<<2, 1>>, MAX_CONTEXT_LENGTH)) = MAX_CONTEXT_LENGTH

---------------------------------------------------------------------------
(* Properties of _build_context_from_docs *)

\* The texts of docs with a blank line between each two, built from the last one
RECURSIVE Joined(_)
Joined(docs) ==
    IF docs = <<>> THEN <<>>
    ELSE IF Len(docs) = 1 THEN page_content(docs[1])
    ELSE Joined(SubSeq(docs, 1, Len(docs) - 1)) \o <<"\n", "\n">> \o page_content(docs[Len(docs)])

\* C23: for every list of documents and every max_length >= 0, the context
\* _build_context_from_docs returns is the first min(max_length, L) tokens of the
\* texts of the documents joined by a blank line, L being the length of the
\* joined text; it is never longer than max_length, and it is empty for an empty
\* list.
C23_ContextBound ==
    context_run.pc = "returned" =>
        LET whole == Joined(context_run.docs)
            L == Len(whole)
            n == IF context_run.max_length <= L THEN context_run.max_length ELSE L
        IN  /\ Len(context_run.context) = n
            /\ \A i \in 1..n : context_run.context[i] = whole[i]
            /\ Len(context_run.context) <= context_run.max_length
            /\ context_run.docs = <<>> => context_run.context = <<>>

\* Two chunks of CHUNK_SIZE tokens were cut to a context of MAX_CONTEXT_LENGTH
\* tokens that ends inside the second chunk
C23_Witness ==
    /\ context_run.pc = "returned"
    /\ context_run.docs = <<2, 1>>
    /\ context_run.max_length = MAX_CONTEXT_LENGTH
    /\ Len(context_run.context) = MAX_CONTEXT_LENGTH
    /\ context_run.context[CHUNK_SIZE + 3] = "chunk"

---------------------------------------------------------------------------
(* Properties of the delete before the add, and of rejected input *)

\* The records of recs whose source is file_name
RecordsOf(recs, file_name) == { r \in recs : r.filename = file_name }

\* C24: an error of the look-up or of the delete of the records the source
\* already has does not make add_document_to_knowledge_base raise or fail: the
\* call goes on to collection.add and succeeds unless the add fails; an
\* ingestion of a source with no record in the index deletes no record.
C24_DeleteBestEffort ==
    Ingested =>
        /\ call.ev["cleanup_error"] = 1
              => /\ call.exc = NoExc
                 /\ call.ev["add"] = 1
                 /\ call.result.success <=> call.fault = NoExc
                 /\ call.fault # NoExc => call.fault.msg = <<"sqlite", ":", "disk", "I/O", "error">>
        /\ (call.arg.type = "str"
            /\ RecordsOf(call.before, basename(call.arg.value)) = {})
              => /\ call.before \subseteq records
                 /\ call.ev["delete"] = 0

\* The delete of the two records of case.pdf failed, and the ingestion went on and
\* returned success
C24_Witness ==
    /\ Ingested
    /\ call.ev["delete"] = 1
    /\ call.ev["cleanup_error"] = 1
    /\ call.ev["add"] = 1
    /\ call.result.success
    /\ Cardinality(RecordsOf(call.before, "case.pdf")) = 2

SupportedSuffixes == {".pdf", ".txt", ".md", ".markdown"}

\* The argument of the call is refused, or no text came out of the file
Rejected ==
    \/ call.arg.type # "str"
    \/ call.arg.value = ""
    \/ ~exists(call.arg.value)
    \/ suffix(call.arg.value) \notin SupportedSuffixes
    \/ call.ev["chunk"] = 0

\* C25: when file_path is empty or no string, names no file, has an extension
\* other than .pdf, .txt, .md, .markdown, or when the extraction raises or gives
\* an empty text, add_document_to_knowledge_base returns success false with
\* chunks_added 0 and makes no get, no delete and no add: the index is as it was.
C25_RejectedInputLeavesIndex ==
    (Ingested /\ Rejected) =>
        /\ call.exc = NoExc
        /\ ~call.result.success
        /\ call.result.chunks_added = 0
        /\ call.ev["get"] = 0
        /\ call.ev["delete"] = 0
        /\ call.ev["add"] = 0
        /\ call.ev["encode"] = 0
        /\ records = call.before

\* case.pdf held blanks only, the index held records, and the call was refused
C25_Witness ==
    /\ Ingested
    /\ call.arg = Str("case.pdf")
    /\ call.ev["extract"] = 1
    /\ call.result.message = <<"No se pudo extraer texto del archivo">>
    /\ call.before # {}
    /\ records = call.before

---------------------------------------------------------------------------
(* Properties of the records an ingestion touches *)

\* C28: whenever add_document_to_knowledge_base returns success false, the index
\* holds the records it held before the call; a re-ingestion of a source whose
\* add fails leaves the records of the source in place.
C28_FailedIngestionAtomic ==
    (Ingested /\ call.exc = NoExc /\ ~call.result.success) => records = call.before

\* C29: an ingestion of a document of source S (the basename of file_path) adds,
\* deletes and changes records of source S only: the records of every other
\* source are after the call what they were before it, whether it succeeds or
\* fails.
C29_IngestionFrame ==
    Ingested =>
        IF call.arg.type = "str"
        THEN LET S == basename(call.arg.value)
             IN  { r \in records : r.filename # S } = { r \in call.before : r.filename # S }
        ELSE records = call.before

\* A re-ingestion of case.pdf replaced its records while the record of notes.txt
\* stayed
C29_Witness ==
    /\ Ingested
    /\ call.arg = Str("case.pdf")
    /\ call.result.success
    /\ call.ev["delete"] = 1
    /\ RecordsOf(call.before, "case.pdf") # RecordsOf(records, "case.pdf")
    /\ RecordsOf(call.before, "case.pdf") # {}
    /\ RecordsOf(records, "notes.txt") # {}

---------------------------------------------------------------------------
(* Properties of the cut of a chunk *)

\* The positions of the look-back range of the window of r that lie in the window
LookBackRange(r) ==
    { p \in (r.start)..(r.start + r.chunk_size - 1) : p > r.start + r.chunk_size - LOOKBACK }

\* C27: in every iteration whose window does not reach the end of the text, the
\* chunk is cut right after the sentence end ('.', '!', '?', newline) nearest to
\* the end of the window in the look-back range, at start + chunk_size when the
\* range holds none, and the cut lies in the window: start < end <= start + chunk_size.
C27_SentenceBoundaryCut ==
    (chunker.pc = "loop" /\ chunker.start + chunker.chunk_size < len(chunker.text)) =>
        LET r == chunker
            end == cut_end(r)
            ends == { p \in LookBackRange(r) : char_at(r.text, p) \in Boundaries }
        IN  /\ ~look_back(r).raised
            /\ r.start < end
            /\ end <= r.start + r.chunk_size
            /\ ends # {} => \A p \in ends : p < end
            /\ ends # {} => end - 1 \in ends
            /\ ends = {} => end = r.start + r.chunk_size

---------------------------------------------------------------------------
(* Properties of the handle and the directory *)

\* C30: in a single-threaded sequence of calls of get_or_create_vectorstore,
\* reset_vectorstore and query_rag_system_local, every step of the manager that
\* deletes the persistence directory ends with no handle cached: the directory of
\* a cached handle is not deleted by the manager while the handle stays cached.
C30_HandleBackedByStorage ==
    [][\A t \in MainThreads :
           (persist_dir # "absent" /\ persist_dir' = "absent" /\ Step(t))
               => _vectorstore' = 0]_vars

\* A handle was cached by get_or_create_vectorstore, and reset_vectorstore then
\* dropped it and deleted the directory
C30_Witness ==
    \E t \in MainThreads :
        /\ frame[t].pc = "idle"
        /\ frame[t].op = "reset_vectorstore"
        /\ frame[t].prev = [op |-> "get_or_create_vectorstore", raised |-> FALSE]
        /\ frame[t].ev["rmtree"] = 1
        /\ _vectorstore = 0
        /\ persist_dir = "absent"

---------------------------------------------------------------------------
(* Properties of a query beside an ingestion *)

\* C26: nothing makes the delete of lines 168-170 and the add of lines 182-187 one
\* step: while a re-ingestion of source S stands between them with its delete
\* done, the index holds no record of S, and a query answered then has no result
\* of S.
C26_QueryBetweenDeleteAndAdd ==
    (/\ ingestion.pc = "add"
     /\ ingestion.ev["delete"] = 1
     /\ ingestion.ev["cleanup_error"] = 0)
        => LET S == basename(ingestion.file_path.value)
           IN  /\ RecordsOf(records, S) = {}
               /\ (call.op = "query_knowledge_base" /\ call.exc = NoExc /\ call.result.success)
                     => \A i \in 1..Len(call.result.results) : call.result.results[i].source # S

\* A re-ingestion of case.pdf has ended: the index held its chunks before and holds
\* the same chunks after, and the query that was answered between the delete and
\* the add searched an index with no record of case.pdf
C26_Witness ==
    LET seen == ingestion.overlapped
    IN  /\ ingestion.pc = "idle"
        /\ call.op = "add_document_to_knowledge_base"
        /\ call.arg = Str("case.pdf")
        /\ call.result.success
        /\ call.ev["delete"] = 1
        /\ RecordsOf(call.before, "case.pdf") # {}
        /\ RecordsOf(records, "case.pdf") = RecordsOf(call.before, "case.pdf")
        /\ seen.op = "query_knowledge_base"
        /\ seen.ev["query"] = 1
        /\ seen.exc = NoExc
        /\ seen.result.success
        /\ RecordsOf(seen.before, "case.pdf") = {}
        /\ \A i \in 1..Len(seen.result.results) : seen.result.results[i].source # "case.pdf"

---------------------------------------------------------------------------
(* Properties of the directory after a failed build *)

\* C31: a handle is set only for an index that a build completed: the load step
\* sets a handle only when the directory holds a complete index, and a call of
\* get_or_create_vectorstore whose second build raises leaves the persistence
\* directory absent or empty, so that no later call loads the remains of the build.
C31_NoPartialIndexReady ==
    [][\A t \in MainThreads :
           LET f == frame[t]
               g == frame'[t]
           IN  /\ (f.pc = "goc_retry_build" /\ goc_retry_build(t) /\ g.exc # NoExc)
                     => persist_dir' \in {"absent", "empty"}
               /\ (f.pc = "goc_load" /\ goc_load(t) /\ _vectorstore' # 0)
                     => persist_dir = "index"]_vars

====
